---- MODULE Spec2Model ----
(***************************************************************************)
(* Model of quantcoin.py: the QuantCoin node storage facade.               *)
(*                                                                         *)
(* The public store (blocks, peers, public wallets) lives in a JSON file,  *)
(* the private store (wallets) in an AES-CBC encrypted file with an IV     *)
(* sidecar.  Python values are modelled as follows: a str is a sequence of *)
(* byte values 0..255, a list and a tuple are sequences, a JSON array read *)
(* back from a file is a record [array |-> ...] until tuple() converts it, *)
(* and the outcome of a call is a record [kind, val] whose kind is "None", *)
(* "bool", "list", "num", "bytes" or "raise".                              *)
(***************************************************************************)
EXTENDS Integers, Sequences, FiniteSets

VARIABLES
    _blocks,         \* self._blocks
    _peers,          \* self._peers
    _public_wallets, \* self._public_wallets
    _wallets,        \* self._wallets
    dbFile,          \* the public store file at DbPath
    vaultFile,       \* the private store file at VaultPath
    ivFile,          \* the IV sidecar VaultPath + ".iv"
    savedDb,         \* what the last save wrote dbFile from
    savedVault,      \* what the last save_private wrote vaultFile from
    msg,             \* the message handed to __pad
    before,          \* the four collections as the last call found them
    rep,             \* the last call repeated the call before it
    op,              \* name of the last call
    arg,             \* its arguments
    ret              \* its outcome

vars == <<_blocks, _peers, _public_wallets, _wallets, dbFile, vaultFile, ivFile,
          savedDb, savedVault, msg, before, rep, op, arg, ret>>

memVars == <<_blocks, _peers, _public_wallets, _wallets>>
fileVars == <<dbFile, vaultFile, ivFile, savedDb, savedVault>>

----------------------------------------------------------------------------
(* Bounds *)

MaxMsgLen == 34
MaxChain == 2
MaxTx == 1
MaxIdx == 4

----------------------------------------------------------------------------
(* Python helpers *)

Range(s) == {s[i] : i \in 1..Len(s)}

PyNone == [kind |-> "None", val |-> 0]
PyBool(b) == [kind |-> "bool", val |-> b]
PyList(l) == [kind |-> "list", val |-> l]
PyNum(n) == [kind |-> "num", val |-> n]
PyBytes(s) == [kind |-> "bytes", val |-> s]
PyRaise(e) == [kind |-> "raise", val |-> e]

\* Python's index adjustment for s[start:end] on a sequence of length n.
AdjustIndex(i, n) ==
    IF i < 0
    THEN (IF i + n < 0 THEN 0 ELSE i + n)
    ELSE (IF i > n THEN n ELSE i)

\* s[start:end]
PySliceNoWrap(s, start, end) ==
    LET lo == IF start < 0 THEN 0 ELSE IF start > Len(s) THEN Len(s) ELSE start
        hi == IF end < 0 THEN 0 ELSE IF end > Len(s) THEN Len(s) ELSE end
    IN  IF hi <= lo THEN <<>> ELSE [k \in 1..(hi - lo) |-> s[lo + k]]

PySlice(s, start, end) ==
    LET lo == AdjustIndex(start, Len(s))
        hi == AdjustIndex(end, Len(s))
    IN  IF hi <= lo THEN <<>> ELSE [k \in 1..(hi - lo) |-> s[lo + k]]

----------------------------------------------------------------------------
(* Padding *)

BlockSize == 16

padZeroAtBoundary(m) ==
    LET k == (BlockSize - (Len(m) % BlockSize)) % BlockSize
    IN  m \o [i \in 1..k |-> k]

\* __pad: m + (16 - len(m) % 16) * chr(16 - len(m) % 16)
pad(m) ==
    LET k == BlockSize - (Len(m) % BlockSize)
    IN  m \o [i \in 1..k |-> k]

\* __unpad: m[0:-ord(m[-1])]; m[-1] raises IndexError on an empty m, which
\* the caller models (unpadRaises).
unpad(m) == PySlice(m, 0, 0 - m[Len(m)])

unpadRaises(m) == Len(m) = 0

----------------------------------------------------------------------------
(* The cipher.  AES itself is replaced by a small keyed byte permutation;  *)
(* the CBC chaining, the block structure and the errors are the library's. *)

RECURSIVE Xor(_, _)
Xor(a, b) ==
    IF a = 0 /\ b = 0 THEN 0
    ELSE (((a % 2) + (b % 2)) % 2) + (2 * Xor(a \div 2, b \div 2))

XorBlock(x, y) == [i \in 1..BlockSize |-> Xor(x[i], y[i])]

Passwords == {"pw1", "pw2"}

\* hashlib.sha256(password).digest(): the key, one byte of it being enough here
Sha256Digest(password) == IF password = "pw1" THEN 37 ELSE 201

BlockEncrypt(key, b) == [i \in 1..BlockSize |-> (b[i] + key + i) % 256]
BlockDecrypt(key, c) == [i \in 1..BlockSize |-> (c[i] + 512 - key - i) % 256]

\* AES.new(key, AES.MODE_CBC, iv).encrypt(m), m a whole number of blocks
RECURSIVE CbcEncrypt(_, _, _)
CbcEncrypt(key, prev, m) ==
    IF Len(m) = 0 THEN <<>>
    ELSE LET c == BlockEncrypt(key, XorBlock(SubSeq(m, 1, BlockSize), prev))
         IN  c \o CbcEncrypt(key, c, SubSeq(m, BlockSize + 1, Len(m)))

\* AES.new(key, AES.MODE_CBC, iv).decrypt(c), c a whole number of blocks
RECURSIVE CbcDecrypt(_, _, _)
CbcDecrypt(key, prev, c) ==
    IF Len(c) = 0 THEN <<>>
    ELSE LET b == SubSeq(c, 1, BlockSize)
         IN  XorBlock(BlockDecrypt(key, b), prev)
                 \o CbcDecrypt(key, b, SubSeq(c, BlockSize + 1, Len(c)))

\* Random.new().read(AES.block_size): the IVs a save may draw
IVs == { [i \in 1..BlockSize |-> 0],
         [i \in 1..BlockSize |-> (i * 17) % 256] }

----------------------------------------------------------------------------
(* JSON text of the private store.  A wallet is one of the node's wallet   *)
(* records, numbered 1..9; its JSON text is abbreviated to its digit.      *)

JsonPrefix == <<123, 34, 119, 97, 108, 108, 101, 116, 115, 34, 58, 32, 91>>
JsonSuffix == <<93, 125>>

RECURSIVE JsonItems(_)
JsonItems(ws) ==
    IF Len(ws) = 0 THEN <<>>
    ELSE IF Len(ws) = 1 THEN <<48 + ws[1]>>
    ELSE <<48 + ws[1], 44, 32>> \o JsonItems(Tail(ws))

\* json.dumps({'wallets': ws})
JsonDumpsWallets(ws) == JsonPrefix \o JsonItems(ws) \o JsonSuffix

IsDigit(c) == c >= 49 /\ c <= 57

RECURSIVE ParseItems(_)
ParseItems(t) ==
    IF Len(t) = 1 /\ IsDigit(t[1]) THEN [ok |-> TRUE, val |-> <<t[1] - 48>>]
    ELSE IF Len(t) >= 4 /\ IsDigit(t[1]) /\ t[2] = 44 /\ t[3] = 32
    THEN LET rest == ParseItems(SubSeq(t, 4, Len(t)))
         IN  [ok |-> rest.ok, val |-> <<t[1] - 48>> \o rest.val]
    ELSE [ok |-> FALSE, val |-> <<>>]

\* json.loads(text)['wallets']: ok is FALSE where either raises
JsonLoadsWallets(text) ==
    LET n == Len(text)
        p == Len(JsonPrefix)
    IN  IF n >= p + 2 /\ SubSeq(text, 1, p) = JsonPrefix
           /\ SubSeq(text, n - 1, n) = JsonSuffix
        THEN IF n = p + 2 THEN [ok |-> TRUE, val |-> <<>>]
             ELSE ParseItems(SubSeq(text, p + 1, n - 2))
        ELSE [ok |-> FALSE, val |-> <<>>]

----------------------------------------------------------------------------
(* Blocks and transactions.  A block is the sequence its transactions()    *)
(* yields, a transaction the record of its three accessors.                *)

Tx(f, t, s) == [from_wallet |-> f, to_wallets |-> t, ammount_spent |-> s]

ScenarioTx == Tx("A", << <<"B", 30>>, <<"A", 5>> >>, 30)

TxSet ==
    { ScenarioTx,
      Tx("B", << <<"A", 5>> >>, 5),
      Tx("A", << <<"B", 30>>, <<"B", 30>> >>, 60),
      Tx("B", <<>>, 7),
      Tx("B", << <<"A", 30>>, <<"A", 5>> >>, 35),
      Tx("A", << <<"A", 5>> >>, 0) }

Addresses == {"A", "B", "other"}

RECURSIVE SeqsUpTo(_, _)
SeqsUpTo(S, n) ==
    IF n = 0 THEN {<<>>}
    ELSE LET shorter == SeqsUpTo(S, n - 1)
         IN  shorter \cup {Append(q, x) : q \in shorter, x \in S}

\* Block.json() and Block.from_json(): the collaborator's encode/decode pair
BlockJson(b) == [block_json |-> b]
BlockFromJson(j) == j.block_json

\* a tuple written by json.dump becomes an array; tuple() makes it one again
JsonArray(t) == [array |-> t]
tuple(a) == a.array

\* [block.json() for block in self._blocks], and a list of tuples dumped
JsonBlocks(q) == [i \in 1..Len(q) |-> BlockJson(q[i])]
JsonArrays(q) == [i \in 1..Len(q) |-> JsonArray(q[i])]

\* [Block.from_json(block) for block in blocks], [tuple(peer) for peer in ...]
BlocksFromJson(q) == [i \in 1..Len(q) |-> BlockFromJson(q[i])]
Tuples(q) == [i \in 1..Len(q) |-> tuple(q[i])]

----------------------------------------------------------------------------
(* store_public_wallet's derivation *)

\* binascii.a2b_base64: "" stands for binascii.Error (incorrect padding);
\* characters outside the alphabet, such as a newline, are skipped
a2b_base64(public_key) ==
    IF public_key \in {"a2V5MQ==", "a2V5MQ==\n"} THEN "key1"
    ELSE IF public_key = "a2V5Mg==" THEN "key2"
    ELSE ""

sha1_hexdigest(raw) == <<"sha1", raw>>

address_of(public_key) == <<"QC", sha1_hexdigest(a2b_base64(public_key))>>

----------------------------------------------------------------------------
(* Files *)

DbPath == "db"
VaultPath == "vault"
MissingPath == "nofile"

AbsentFile == [exists |-> FALSE, data |-> <<>>]
File(d) == [exists |-> TRUE, data |-> d]

NotSaved == [valid |-> FALSE]

SeedPeer == <<"127.0.0.1", 65345>>
OtherPeer == <<"10.0.0.2", 65345>>

\* os.path.exists(database)
db_exists(database) == database = DbPath /\ dbFile.exists
vault_exists(database) == database = VaultPath /\ vaultFile.exists

----------------------------------------------------------------------------
(* Operations of QuantCoin *)

NoArg == [none |-> TRUE]

\* bookkeeping of every call: what it found, and whether it repeats the last
History ==
    /\ before' = memVars
    /\ rep' = (op = op' /\ arg = arg')

loadMerging(database) ==
    /\ IF db_exists(database)
       THEN /\ _blocks' = _blocks \o BlocksFromJson(dbFile.data.blocks)
            /\ _peers' = _peers \o Tuples(dbFile.data.peers)
            /\ _public_wallets' =
                   _public_wallets \o Tuples(dbFile.data.public_wallets)
            /\ ret' = PyNone
       ELSE /\ UNCHANGED <<_blocks, _peers, _public_wallets>>
            /\ ret' = PyBool(FALSE)
    /\ op' = "load"
    /\ arg' = [database |-> database]
    /\ History
    /\ UNCHANGED <<_wallets, fileVars, msg>>

loadResetsWhenMissing(database) ==
    /\ IF db_exists(database)
       THEN /\ _blocks' = BlocksFromJson(dbFile.data.blocks)
            /\ _peers' = Tuples(dbFile.data.peers)
            /\ _public_wallets' = Tuples(dbFile.data.public_wallets)
            /\ ret' = PyNone
       ELSE /\ _blocks' = <<>>
            /\ _peers' = <<>>
            /\ _public_wallets' = <<>>
            /\ ret' = PyBool(FALSE)
    /\ op' = "load"
    /\ arg' = [database |-> database]
    /\ History
    /\ UNCHANGED <<_wallets, fileVars, msg>>

load(database) ==
    /\ IF db_exists(database)
       THEN /\ _blocks' = BlocksFromJson(dbFile.data.blocks)
            /\ _peers' = Tuples(dbFile.data.peers)
            /\ _public_wallets' = Tuples(dbFile.data.public_wallets)
            /\ ret' = PyNone
       ELSE /\ UNCHANGED <<_blocks, _peers, _public_wallets>>
            /\ ret' = PyBool(FALSE)
    /\ op' = "load"
    /\ arg' = [database |-> database]
    /\ History
    /\ UNCHANGED <<_wallets, fileVars, msg>>

save(database) ==
    /\ dbFile' = File([blocks |-> JsonBlocks(_blocks),
                       peers |-> JsonArrays(_peers),
                       public_wallets |-> JsonArrays(_public_wallets)])
    /\ savedDb' = [valid |-> TRUE, blocks |-> _blocks, peers |-> _peers,
                   public_wallets |-> _public_wallets]
    /\ op' = "save"
    /\ arg' = [database |-> database]
    /\ History
    /\ ret' = PyNone
    /\ UNCHANGED <<memVars, vaultFile, ivFile, savedVault, msg>>

load_private(database, password) ==
    /\ IF ~vault_exists(database)
       THEN /\ ret' = PyBool(FALSE)
            /\ UNCHANGED _wallets
       ELSE IF ~ivFile.exists
       THEN /\ ret' = PyRaise("IOError")
            /\ UNCHANGED _wallets
       ELSE IF Len(ivFile.data) # BlockSize
       THEN /\ ret' = PyRaise("ValueError")
            /\ UNCHANGED _wallets
       ELSE IF Len(vaultFile.data) % BlockSize # 0
       THEN /\ ret' = PyRaise("ValueError")
            /\ UNCHANGED _wallets
       ELSE LET decrypted == CbcDecrypt(Sha256Digest(password), ivFile.data,
                                        vaultFile.data)
            IN  IF unpadRaises(decrypted)
                THEN /\ ret' = PyRaise("IndexError")
                     /\ UNCHANGED _wallets
                ELSE LET storage == JsonLoadsWallets(unpad(decrypted))
                     IN  IF storage.ok
                         THEN /\ _wallets' = storage.val
                              /\ ret' = PyBool(TRUE)
                         ELSE /\ ret' = PyBool(FALSE)
                              /\ UNCHANGED _wallets
    /\ op' = "load_private"
    /\ arg' = [database |-> database, password |-> password]
    /\ History
    /\ UNCHANGED <<_blocks, _peers, _public_wallets, fileVars, msg>>

save_privateStaleIv(database, password) ==
    \E iv \in IVs :
        /\ ivFile' = IF ivFile.exists THEN ivFile ELSE File(iv)
        /\ vaultFile' = File(CbcEncrypt(Sha256Digest(password), iv,
                                        pad(JsonDumpsWallets(_wallets))))
        /\ savedVault' = [valid |-> TRUE, wallets |-> _wallets,
                          password |-> password]
        /\ op' = "save_private"
        /\ arg' = [database |-> database, password |-> password]
        /\ History
        /\ ret' = PyNone
        /\ UNCHANGED <<memVars, dbFile, savedDb, msg>>

save_private(database, password) ==
    \E iv \in IVs :
        /\ ivFile' = File(iv)
        /\ vaultFile' = File(CbcEncrypt(Sha256Digest(password), iv,
                                        pad(JsonDumpsWallets(_wallets))))
        /\ savedVault' = [valid |-> TRUE, wallets |-> _wallets,
                          password |-> password]
        /\ op' = "save_private"
        /\ arg' = [database |-> database, password |-> password]
        /\ History
        /\ ret' = PyNone
        /\ UNCHANGED <<memVars, dbFile, savedDb, msg>>

all_nodes ==
    /\ op' = "all_nodes"
    /\ arg' = NoArg
    /\ History
    /\ ret' = PyList(_peers)
    /\ UNCHANGED <<memVars, fileVars, msg>>

blocks ==
    /\ op' = "blocks"
    /\ arg' = NoArg
    /\ History
    /\ ret' = PyList(_blocks)
    /\ UNCHANGED <<memVars, fileVars, msg>>

blockNoWrap(start, end) ==
    /\ op' = "block"
    /\ arg' = [start |-> start, end |-> end]
    /\ History
    /\ ret' = PyList(PySliceNoWrap(_blocks, start, end))
    /\ UNCHANGED <<memVars, fileVars, msg>>

block(start, end) ==
    /\ op' = "block"
    /\ arg' = [start |-> start, end |-> end]
    /\ History
    /\ ret' = PyList(PySlice(_blocks, start, end))
    /\ UNCHANGED <<memVars, fileVars, msg>>

wallets ==
    /\ op' = "wallets"
    /\ arg' = NoArg
    /\ History
    /\ ret' = PyList(_wallets)
    /\ UNCHANGED <<memVars, fileVars, msg>>

public_wallets ==
    /\ op' = "public_wallets"
    /\ arg' = NoArg
    /\ History
    /\ ret' = PyList(_public_wallets)
    /\ UNCHANGED <<memVars, fileVars, msg>>

store_walletAlways(wallet) ==
    /\ _wallets' = Append(_wallets, wallet)
    /\ op' = "store_wallet"
    /\ arg' = [wallet |-> wallet]
    /\ History
    /\ ret' = PyNone
    /\ UNCHANGED <<_blocks, _peers, _public_wallets, fileVars, msg>>

store_wallet(wallet) ==
    /\ _wallets' = IF wallet \notin Range(_wallets)
                   THEN Append(_wallets, wallet) ELSE _wallets
    /\ op' = "store_wallet"
    /\ arg' = [wallet |-> wallet]
    /\ History
    /\ ret' = PyNone
    /\ UNCHANGED <<_blocks, _peers, _public_wallets, fileVars, msg>>

store_public_wallet(public_key) ==
    /\ IF a2b_base64(public_key) = ""
       THEN /\ ret' = PyRaise("binascii.Error")
            /\ UNCHANGED _public_wallets
       ELSE LET public_wallet == <<address_of(public_key), public_key>>
            IN  /\ _public_wallets' =
                       IF public_wallet \notin Range(_public_wallets)
                       THEN Append(_public_wallets, public_wallet)
                       ELSE _public_wallets
                /\ ret' = PyNone
    /\ op' = "store_public_wallet"
    /\ arg' = [public_key |-> public_key]
    /\ History
    /\ UNCHANGED <<_blocks, _peers, _wallets, fileVars, msg>>

store_blockFront(b) ==
    /\ _blocks' = IF b \notin Range(_blocks) THEN <<b>> \o _blocks ELSE _blocks
    /\ op' = "store_block"
    /\ arg' = [block |-> b]
    /\ History
    /\ ret' = PyNone
    /\ UNCHANGED <<_peers, _public_wallets, _wallets, fileVars, msg>>

store_block(b) ==
    /\ _blocks' = IF b \notin Range(_blocks) THEN Append(_blocks, b) ELSE _blocks
    /\ op' = "store_block"
    /\ arg' = [block |-> b]
    /\ History
    /\ ret' = PyNone
    /\ UNCHANGED <<_peers, _public_wallets, _wallets, fileVars, msg>>

store_node(node) ==
    /\ _peers' = IF node \notin Range(_peers) THEN Append(_peers, node) ELSE _peers
    /\ op' = "store_node"
    /\ arg' = [node |-> node]
    /\ History
    /\ ret' = PyNone
    /\ UNCHANGED <<_blocks, _public_wallets, _wallets, fileVars, msg>>

\* the loops of ammount_owned, innermost first
RECURSIVE to_wallets_loop(_, _, _)
to_wallets_loop(pairs, wallet, owned) ==
    IF Len(pairs) = 0 THEN owned
    ELSE to_wallets_loop(Tail(pairs), wallet,
                         IF Head(pairs)[1] = wallet
                         THEN owned + Head(pairs)[2] ELSE owned)

transaction_stepCreditsSource(transaction, wallet, owned) ==
    to_wallets_loop(transaction.to_wallets, wallet,
                    IF wallet = transaction.from_wallet
                    THEN owned - transaction.ammount_spent ELSE owned)

transaction_step(transaction, wallet, owned) ==
    IF wallet = transaction.from_wallet
    THEN owned - transaction.ammount_spent
    ELSE to_wallets_loop(transaction.to_wallets, wallet, owned)

RECURSIVE transactions_loop(_, _, _)
transactions_loop(txs, wallet, owned) ==
    IF Len(txs) = 0 THEN owned
    ELSE transactions_loop(Tail(txs), wallet,
                           transaction_step(Head(txs), wallet, owned))

RECURSIVE blocks_loop(_, _, _)
blocks_loop(chain, wallet, owned) ==
    IF Len(chain) = 0 THEN owned
    ELSE blocks_loop(Tail(chain), wallet,
                     transactions_loop(Head(chain), wallet, owned))

ammount_owned(wallet) ==
    /\ op' = "ammount_owned"
    /\ arg' = [wallet |-> wallet]
    /\ History
    /\ ret' = PyNum(blocks_loop(_blocks, wallet, 0))
    /\ UNCHANGED <<memVars, fileVars, msg>>

\* the two private helpers, called on their own
call_pad ==
    /\ op = "__init__"
    /\ op' = "__pad"
    /\ arg' = [m |-> msg]
    /\ History
    /\ ret' = PyBytes(pad(msg))
    /\ UNCHANGED <<memVars, fileVars, msg>>

call_unpad ==
    /\ op = "__pad"
    /\ op' = "__unpad"
    /\ arg' = [m |-> ret.val]
    /\ History
    /\ ret' = PyBytes(unpad(ret.val))
    /\ UNCHANGED <<memVars, fileVars, msg>>

----------------------------------------------------------------------------
(* Inputs *)

StoreBlocks == { <<ScenarioTx>>, <<Tx("B", << <<"A", 5>> >>, 5), Tx("B", <<>>, 7)>> }
Peers == {SeedPeer, OtherPeer}
PublicKeys == {"a2V5MQ==", "a2V5MQ==\n", "a2V5M"}
Wallets == {1, 2}
Messages ==
    { [i \in 1..n |-> (f + i) % 256] : n \in 0..MaxMsgLen, f \in {0, 15, 100, 255} }

\* a well-formed store file whose arrays repeat an entry
RepeatedDbFile ==
    File([blocks |-> <<BlockJson(<<ScenarioTx>>), BlockJson(<<ScenarioTx>>)>>,
          peers |-> <<JsonArray(OtherPeer), JsonArray(OtherPeer)>>,
          public_wallets |-> <<JsonArray(<<address_of("a2V5Mg=="), "a2V5Mg==">>),
                               JsonArray(<<address_of("a2V5Mg=="), "a2V5Mg==">>)>>])

InitialDbFiles == {AbsentFile, RepeatedDbFile}

\* vault files as another program, a crash or a transfer may have left them:
\* <<ciphertext, IV sidecar>>
InitialVaultFiles ==
    { <<AbsentFile, AbsentFile>>,
      <<File([i \in 1..20 |-> i]), File([i \in 1..BlockSize |-> i])>>,
      <<File([i \in 1..BlockSize |-> i]), File([i \in 1..5 |-> i])>>,
      <<File([i \in 1..BlockSize |-> i]), AbsentFile>>,
      <<File(<<>>), File([i \in 1..BlockSize |-> i])>>,
      <<File([i \in 1..BlockSize |-> i]), File([i \in 1..BlockSize |-> i])>> }

----------------------------------------------------------------------------
(* Specifications *)

\* __init__
InitMemory ==
    /\ _blocks = <<>>
    /\ _peers = <<SeedPeer>>
    /\ _public_wallets = <<>>
    /\ _wallets = <<>>
    /\ op = "__init__"
    /\ arg = NoArg
    /\ ret = PyNone
    /\ before = <<<<>>, <<SeedPeer>>, <<>>, <<>>>>
    /\ rep = FALSE

Init ==
    /\ InitMemory
    /\ dbFile \in InitialDbFiles
    /\ vaultFile = AbsentFile
    /\ ivFile = AbsentFile
    /\ savedDb = NotSaved
    /\ savedVault = NotSaved
    /\ msg = <<>>

Next ==
    \/ \E database \in {DbPath, MissingPath} : load(database)
    \/ save(DbPath)
    \/ \E b \in StoreBlocks : store_block(b)
    \/ \E node \in Peers : store_node(node)
    \/ \E public_key \in PublicKeys : store_public_wallet(public_key)
    \/ \E wallet \in Wallets : store_wallet(wallet)
    \/ \E password \in Passwords : load_private(VaultPath, password)
    \/ all_nodes
    \/ blocks
    \/ wallets
    \/ public_wallets
    \/ \E start, end \in {0 - 1, 1} : block(start, end)
    \/ \E wallet \in Addresses : ammount_owned(wallet)

Spec == Init /\ [][Next]_vars

\* the private store
InitVault ==
    /\ InitMemory
    /\ dbFile = AbsentFile
    /\ \E pair \in InitialVaultFiles : vaultFile = pair[1] /\ ivFile = pair[2]
    /\ savedDb = NotSaved
    /\ savedVault = NotSaved
    /\ msg = <<>>

NextVault ==
    \/ \E wallet \in Wallets : store_wallet(wallet)
    \/ \E password \in Passwords : save_private(VaultPath, password)
    \/ \E database \in {VaultPath, MissingPath}, password \in Passwords :
           load_private(database, password)
    \/ wallets
    \/ store_block(<<ScenarioTx>>)

SpecVault == InitVault /\ [][NextVault]_vars

\* __pad and __unpad on their own
InitPad ==
    /\ InitMemory
    /\ dbFile = AbsentFile
    /\ vaultFile = AbsentFile
    /\ ivFile = AbsentFile
    /\ savedDb = NotSaved
    /\ savedVault = NotSaved
    /\ msg \in Messages

NextPad == call_pad \/ call_unpad

SpecPad == InitPad /\ [][NextPad]_vars

\* block(start, end) over the chains store_block builds
SliceBlocks == { <<ScenarioTx>>, <<>>, <<ScenarioTx, ScenarioTx>> }

NextSlice ==
    \/ \E b \in SliceBlocks : store_block(b)
    \/ \E start, end \in (0 - MaxIdx)..MaxIdx : block(start, end)

InitPlain ==
    /\ InitMemory
    /\ dbFile = AbsentFile
    /\ vaultFile = AbsentFile
    /\ ivFile = AbsentFile
    /\ savedDb = NotSaved
    /\ savedVault = NotSaved
    /\ msg = <<>>

SpecSlice == InitPlain /\ [][NextSlice]_vars

\* ammount_owned over the chains store_block builds
NextBalance ==
    \/ /\ Len(_blocks) < MaxChain
       /\ \E b \in SeqsUpTo(TxSet, MaxTx) : store_block(b)
    \/ \E wallet \in Addresses : ammount_owned(wallet)

SpecBalance == InitPlain /\ [][NextBalance]_vars

----------------------------------------------------------------------------
(* Properties *)

NoDuplicates(q) == \A i, j \in 1..Len(q) : i # j => q[i] # q[j]

IsPrefix(p, q) == Len(p) <= Len(q) /\ SubSeq(q, 1, Len(p)) = p

AppendOnly(old, new) == IsPrefix(old, new) /\ Len(new) <= Len(old) + 1

Returned(kind, val) == ret.kind = kind /\ ret.val = val

Max(a, b) == IF a >= b THEN a ELSE b
Min(a, b) == IF a <= b THEN a ELSE b

StoreOps == {"store_block", "store_node", "store_wallet", "store_public_wallet"}

\* C1: the block list, the peer list and the public-wallet list never hold
\* two equal elements, whatever well-formed file load read.
C1_NoDuplicateStored ==
    /\ NoDuplicates(_blocks)
    /\ NoDuplicates(_peers)
    /\ NoDuplicates(_public_wallets)

\* C2: a store_* call that repeats the call just before it, with the same
\* argument, leaves every collection as the first call left it.
C2_StoreTwiceIsIdempotent ==
    (rep /\ op \in StoreOps) => memVars = before

C2_Witness ==
    /\ rep
    /\ op = "store_block"
    /\ arg.block \in Range(_blocks)
    /\ Len(_blocks) = 2

\* C3: load of a path where no file exists returns False (a falsy result, not
\* an exception) and leaves the four collections as it found them.
C3_LoadMissingLeavesState ==
    (op = "load" /\ ~db_exists(arg.database))
        => (Returned("bool", FALSE) /\ memVars = before)

C3_Witness ==
    /\ op = "load"
    /\ ~db_exists(arg.database)
    /\ Len(_blocks) > 0
    /\ Len(_public_wallets) > 0
    /\ Len(_wallets) > 0

\* the vault file is the one save_private wrote under the given password
SavedUnder(password) == savedVault.valid /\ savedVault.password = password

\* C4: load_private on an existing vault file, with a wrong password or with
\* a corrupted ciphertext or IV file, returns False without raising and
\* leaves the wallet list unchanged.
C4_LoadPrivateFailsSoftly ==
    (op = "load_private" /\ vault_exists(arg.database)
         /\ ~SavedUnder(arg.password))
        => (Returned("bool", FALSE) /\ _wallets = before[4])

\* C5: load_private with the password of the save_private that wrote the
\* vault returns True and makes the wallet list the saved one.
C5_VaultRoundTrip ==
    (op = "load_private" /\ vault_exists(arg.database)
         /\ SavedUnder(arg.password))
        => (Returned("bool", TRUE) /\ _wallets = savedVault.wallets)

C5_Witness ==
    /\ op = "load_private"
    /\ vault_exists(arg.database)
    /\ SavedUnder(arg.password)
    /\ Len(_wallets) = 1
    /\ Len(before[4]) = 2

\* C6: pad appends k = 16 - (L mod 16) bytes of value k, 1 <= k <= 16, and
\* unpad of the padded message is the message.
C6_PadUnpadRoundTrip ==
    /\ op = "__pad" =>
           LET L == Len(msg)
               k == 16 - (L % 16)
           IN  /\ k >= 1 /\ k <= 16
               /\ Len(ret.val) = L + k
               /\ \A i \in 1..L : ret.val[i] = msg[i]
               /\ \A i \in (L + 1)..(L + k) : ret.val[i] = k
    /\ op = "__unpad" => ret.val = msg

C6_Witness ==
    /\ op = "__unpad"
    /\ Len(msg) = 32
    /\ Len(arg.m) = 48
    /\ ret.val = msg

\* the elements of q at 0-based indices lo .. hi - 1
SliceIs(result, q, lo, hi) ==
    /\ Len(result) = Max(0, hi - lo)
    /\ \A i \in 1..Len(result) : result[i] = q[lo + i]

Bound(i, n) == IF i >= 0 THEN Min(i, n) ELSE Max(n + i, 0)

RECURSIVE SumOver(_, _)
SumOver(S, f) ==
    IF S = {} THEN 0
    ELSE LET x == CHOOSE y \in S : TRUE
         IN  f[x] + SumOver(S \ {x}, f)

\* what one transaction contributes to the balance of address a
Contribution(t, a) ==
    IF t.from_wallet = a THEN 0 - t.ammount_spent
    ELSE LET hits == {d \in 1..Len(t.to_wallets) : t.to_wallets[d][1] = a}
         IN  SumOver(hits, [d \in hits |-> t.to_wallets[d][2]])

Balance(chain, a) ==
    LET places == UNION {{<<b, t>> : t \in 1..Len(chain[b])} : b \in 1..Len(chain)}
    IN  SumOver(places, [p \in places |-> Contribution(chain[p[1]][p[2]], a)])

\* C8: ammount_owned(a) is the sum over all transactions of all blocks of
\* -ammount_spent where a is the source, else of the amounts sent to a; a
\* source is never credited by its own transaction.
C8_AmmountOwnedIsReplay ==
    /\ op = "ammount_owned" => Returned("num", Balance(_blocks, arg.wallet))
    /\ (op = "ammount_owned" /\ _blocks = << <<ScenarioTx>> >>) =>
           ret.val = (CASE arg.wallet = "A" -> 0 - 30
                        [] arg.wallet = "B" -> 30
                        [] OTHER -> 0)

C8_Witness ==
    /\ op = "ammount_owned"
    /\ _blocks = << <<ScenarioTx>> >>
    /\ arg.wallet = "A"
    /\ ret.val = 0 - 30

\* C9: a store_* call extends its own collection by at most one element at
\* the end and leaves the other three alone; the readers change none.
C9_StoreIsAppendOnly ==
    /\ op = "store_block" =>
           /\ AppendOnly(before[1], _blocks)
           /\ <<_peers, _public_wallets, _wallets>> = <<before[2], before[3], before[4]>>
    /\ op = "store_node" =>
           /\ AppendOnly(before[2], _peers)
           /\ <<_blocks, _public_wallets, _wallets>> = <<before[1], before[3], before[4]>>
    /\ op = "store_public_wallet" =>
           /\ AppendOnly(before[3], _public_wallets)
           /\ <<_blocks, _peers, _wallets>> = <<before[1], before[2], before[4]>>
    /\ op = "store_wallet" =>
           /\ AppendOnly(before[4], _wallets)
           /\ <<_blocks, _peers, _public_wallets>> = <<before[1], before[2], before[3]>>
    /\ op \in {"ammount_owned", "block", "all_nodes", "blocks", "wallets",
               "public_wallets"} => memVars = before

C9_Witness ==
    /\ op = "store_block"
    /\ Len(before[1]) = 1
    /\ Len(_blocks) = 2
    /\ _blocks[1] = before[1][1]
    /\ Len(_wallets) > 0

\* C10: load of the file the last save wrote makes blocks, peers and public
\* wallets those of the saving store, in order, in place of what the loading
\* store held, and leaves the wallet list alone.
C10_PublicRoundTrip ==
    (op = "load" /\ db_exists(arg.database) /\ savedDb.valid) =>
        /\ _blocks = savedDb.blocks
        /\ _peers = savedDb.peers
        /\ _public_wallets = savedDb.public_wallets
        /\ _wallets = before[4]

C10_Witness ==
    /\ op = "load"
    /\ db_exists(arg.database)
    /\ savedDb.valid
    /\ Len(_blocks) = 1
    /\ Len(before[1]) = 2
    /\ Len(_peers) = 2
    /\ Len(_public_wallets) = 2
    /\ Len(_wallets) = 1

====
